---- MODULE Spec2Model ----
(***************************************************************************)
(* Bezier curve editor (src/bezier-editor.js): the curve model (anchors,   *)
(* controls), the selection and drag state, the sampler that writes        *)
(* waveformData, and the pointer handlers.                                 *)
(*                                                                         *)
(* Numbers.  The program computes in IEEE doubles.  The model computes in  *)
(* fixed point: a number v is the integer v * Scale.  Addition,            *)
(* subtraction, comparison and multiplication by an integer literal are    *)
(* exact; a product or quotient of two numbers is rounded to the nearest   *)
(* unit (a double rounds every result likewise, at a finer grain).         *)
(* Array indices keep the program's 0-based values; a TLA+ sequence is     *)
(* read at index + 1.                                                      *)
(***************************************************************************)
EXTENDS Integers, Sequences, FiniteSets, TLC

Scale == 1000

\* Bound of the exploration: the number of handler calls in one behaviour.
MaxEvents == 4

\* n / d rounded to the nearest integer (d > 0), halves upwards.
RoundDiv(n, d) == (2 * n + d) \div (2 * d)

Abs(a) == IF a < 0 THEN -a ELSE a
Min(a, b) == IF a < b THEN a ELSE b
Max(a, b) == IF a > b THEN a ELSE b

\* Fixed-point number of the integer literal n, and of the decimal n / d.
Num(n) == n * Scale
Dec(n, d) == RoundDiv(n * Scale, d)

\* a * b: the exact product over Scale, rounded once.  b is taken apart
\* into whole and fractional units so that no intermediate value leaves
\* TLC's 32-bit integers (TLC stops with an error if one does).
Mul(a, b) == a * (b \div Scale) + RoundDiv(a * (b % Scale), Scale)

\* a / b for b > 0, rounded once.
Div(a, b) == RoundDiv(a * Scale, b)

Pt(px, py) == [x |-> px, y |-> py]

(***************************************************************************)
(* Host state read by the editor (main script globals, lines 6-14) and the *)
(* editor's own constants (lines 30-33).                                   *)
(***************************************************************************)
baseWidth == Num(300)
baseHeight == Num(100)
currentLength == 6
stepHeight == Num(10)
currentMaxValue == 10
currentCenterValue == 5
dpr == Num(1)
cellWidth == Div(baseWidth, Num(currentLength))
centerY == RoundDiv(baseHeight, 2)

pointSize == 8
hitThreshold == 12
steps == 30
max_iterations == 100
tolerance == Dec(1, 100)

\* The host's quantizeValue: nearest integer step, kept inside
\* [0, currentMaxValue].
quantizeValue(rawValue) ==
    Max(0, Min(currentMaxValue, RoundDiv(rawValue, Scale)))

(***************************************************************************)
(* Bezier math utilities                                                   *)
(***************************************************************************)

\* subdivideBezier with the split point taken one level too early (from
\* q0, q1 instead of r0, r1).
subdivideBezier_EarlySplitPoint(p0, p1, p2, p3, t) ==
    LET q0 == Pt(p0.x + Mul(p1.x - p0.x, t), p0.y + Mul(p1.y - p0.y, t))
        q1 == Pt(p1.x + Mul(p2.x - p1.x, t), p1.y + Mul(p2.y - p1.y, t))
        q2 == Pt(p2.x + Mul(p3.x - p2.x, t), p2.y + Mul(p3.y - p2.y, t))
        r0 == Pt(q0.x + Mul(q1.x - q0.x, t), q0.y + Mul(q1.y - q0.y, t))
        r1 == Pt(q1.x + Mul(q2.x - q1.x, t), q1.y + Mul(q2.y - q1.y, t))
        s0 == Pt(q0.x + Mul(q1.x - q0.x, t), q0.y + Mul(q1.y - q0.y, t))
    IN  [first  |-> [p0 |-> p0, p1 |-> q0, p2 |-> r0, p3 |-> s0],
         second |-> [p0 |-> s0, p1 |-> r1, p2 |-> q2, p3 |-> p3]]

\* subdivideBezier whose last interpolation runs from r1 to r0.
subdivideBezier_SwappedLastLerp(p0, p1, p2, p3, t) ==
    LET q0 == Pt(p0.x + Mul(p1.x - p0.x, t), p0.y + Mul(p1.y - p0.y, t))
        q1 == Pt(p1.x + Mul(p2.x - p1.x, t), p1.y + Mul(p2.y - p1.y, t))
        q2 == Pt(p2.x + Mul(p3.x - p2.x, t), p2.y + Mul(p3.y - p2.y, t))
        r0 == Pt(q0.x + Mul(q1.x - q0.x, t), q0.y + Mul(q1.y - q0.y, t))
        r1 == Pt(q1.x + Mul(q2.x - q1.x, t), q1.y + Mul(q2.y - q1.y, t))
        s0 == Pt(r1.x + Mul(r0.x - r1.x, t), r1.y + Mul(r0.y - r1.y, t))
    IN  [first  |-> [p0 |-> p0, p1 |-> q0, p2 |-> r0, p3 |-> s0],
         second |-> [p0 |-> s0, p1 |-> r1, p2 |-> q2, p3 |-> p3]]

\* De Casteljau's algorithm for splitting a segment at t.
subdivideBezier(p0, p1, p2, p3, t) ==
    LET q0 == Pt(p0.x + Mul(p1.x - p0.x, t), p0.y + Mul(p1.y - p0.y, t))
        q1 == Pt(p1.x + Mul(p2.x - p1.x, t), p1.y + Mul(p2.y - p1.y, t))
        q2 == Pt(p2.x + Mul(p3.x - p2.x, t), p2.y + Mul(p3.y - p2.y, t))
        r0 == Pt(q0.x + Mul(q1.x - q0.x, t), q0.y + Mul(q1.y - q0.y, t))
        r1 == Pt(q1.x + Mul(q2.x - q1.x, t), q1.y + Mul(q2.y - q1.y, t))
        s0 == Pt(r0.x + Mul(r1.x - r0.x, t), r0.y + Mul(r1.y - r0.y, t))
    IN  [first  |-> [p0 |-> p0, p1 |-> q0, p2 |-> r0, p3 |-> s0],
         second |-> [p0 |-> s0, p1 |-> r1, p2 |-> q2, p3 |-> p3]]

\* The four Bernstein weights getBezierPoint computes for parameter t
\* (mt3, 3 * mt2 * t, 3 * mt * t2, t3, each product taken left to right as
\* the program does).
bernsteinWeights(t) ==
    LET mt  == Num(1) - t
        mt2 == Mul(mt, mt)
        mt3 == Mul(mt2, mt)
        t2  == Mul(t, t)
        t3  == Mul(t2, t)
    IN  <<mt3, Mul(3 * mt2, t), Mul(3 * mt, t2), t3>>

\* bernsteinWeights for every parameter in [0, 1], computed once: the
\* editor evaluates its curves at no other parameter.
unitWeights == [t \in 0..Scale |-> bernsteinWeights(t)]
weightsAt(t) == IF t \in 0..Scale THEN unitWeights[t] ELSE bernsteinWeights(t)

\* One coordinate of the cubic: the weighted sum of that coordinate a, b,
\* c, d of p0, p1, p2, p3.
weightedSum(w, a, b, c, d) ==
    Mul(w[1], a) + Mul(w[2], b) + Mul(w[3], c) + Mul(w[4], d)

bezierCoordinate(t, a, b, c, d) == weightedSum(weightsAt(t), a, b, c, d)

\* Point of the cubic at parameter t.
getBezierPoint(t, p0, p1, p2, p3) ==
    Pt(bezierCoordinate(t, p0.x, p1.x, p2.x, p3.x),
       bezierCoordinate(t, p0.y, p1.y, p2.y, p3.y))

\* The bisection loop of findYatX from iteration i on; its value is the
\* t_mid the loop ends with.  Only the X of getBezierPoint(t_mid) is read.  An iteration that changes none of t_low,
\* t_high, t_mid is repeated unchanged by all the iterations left, so the
\* loop's result is known there.
RECURSIVE findYatXLoop(_, _, _, _, _, _, _, _, _)
findYatXLoop(i, t_low, t_high, t_mid, x, p0, p1, p2, p3) ==
    IF i >= max_iterations THEN t_mid
    ELSE LET x_mid == bezierCoordinate(t_mid, p0.x, p1.x, p2.x, p3.x)
         IN  IF Abs(x_mid - x) < tolerance THEN t_mid
             ELSE LET up == IF p3.x > p0.x THEN x_mid < x ELSE x_mid > x
                      lo == IF up THEN t_mid ELSE t_low
                      hi == IF up THEN t_high ELSE t_mid
                      mid == RoundDiv(lo + hi, 2)
                  IN  IF lo = t_low /\ hi = t_high /\ mid = t_mid THEN t_mid
                      ELSE findYatXLoop(i + 1, lo, hi, mid, x, p0, p1, p2, p3)

\* Approximate Y on the segment for a given X.
findYatX(x, p0, p1, p2, p3) ==
    LET minX == Min(p0.x, p3.x)
        maxX == Max(p0.x, p3.x)
    IN  IF x <= minX + tolerance
        THEN bezierCoordinate(Num(0), p0.y, p1.y, p2.y, p3.y)
        ELSE IF x >= maxX - tolerance
             THEN bezierCoordinate(Num(1), p0.y, p1.y, p2.y, p3.y)
             ELSE bezierCoordinate(
                      findYatXLoop(0, Num(0), Num(1), Dec(1, 2), x, p0, p1, p2, p3),
                      p0.y, p1.y, p2.y, p3.y)

distSq(p1, p2) ==
    LET dx == p1.x - p2.x
        dy == p1.y - p2.y
    IN  Mul(dx, dx) + Mul(dy, dy)

\* Squared distance from p to the sample at t = i / steps.
sampleDistSq(i, p, p0, p1, p2, p3) ==
    IF i = 0 THEN distSq(p, p0)
    ELSE distSq(p, getBezierPoint(Div(Num(i), Num(steps)), p0, p1, p2, p3))

\* Of a set d of (distance, sample index) pairs, the pair the loop of
\* findClosestPointOnSegment ends with: it starts from t = 0 and replaces
\* its result only by a strictly smaller distance, so it keeps the first
\* sample of least distance.
firstLeast(d) ==
    CHOOSE q \in d : \A r \in d : q[1] < r[1] \/ (q[1] = r[1] /\ q[2] <= r[2])

\* The object findClosestPointOnSegment returns for that pair.
closestOf(best) == [t |-> Div(Num(best[2]), Num(steps)), distSq |-> best[1]]

\* Closest of the steps + 1 sampled points of a segment to p.
findClosestPointOnSegment(p, p0, p1, p2, p3) ==
    closestOf(firstLeast({ <<sampleDistSq(i, p, p0, p1, p2, p3), i>> : i \in 0..steps }))

(***************************************************************************)
(* Sampler                                                                 *)
(***************************************************************************)

SegP0(A, seg) == A[seg + 1]
SegP3(A, seg) == A[seg + 2]
SegCp1(C, seg) == Pt(C[seg + 1].cp1x, C[seg + 1].cp1y)
SegCp2(C, seg) == Pt(C[seg + 1].cp2x, C[seg + 1].cp2y)

\* Centre of output column i.
targetXOf(i) == Mul(Num(i) + Dec(1, 2), cellWidth)

\* The while loop advancing also when targetX is at the right anchor.
RECURSIVE advanceSegment_AdvancesOnEqual(_, _, _)
advanceSegment_AdvancesOnEqual(A, segmentIndex, targetX) ==
    IF segmentIndex < Len(A) - 2 /\ targetX >= A[segmentIndex + 2].x
    THEN advanceSegment_AdvancesOnEqual(A, segmentIndex + 1, targetX)
    ELSE segmentIndex

\* The while loop that advances the segment cursor past anchors left of
\* targetX.
RECURSIVE advanceSegment(_, _, _)
advanceSegment(A, segmentIndex, targetX) ==
    IF segmentIndex < Len(A) - 2 /\ targetX > A[segmentIndex + 2].x
    THEN advanceSegment(A, segmentIndex + 1, targetX)
    ELSE segmentIndex

\* The cursor for one column, from the cursor the previous column left:
\* reset, advance, clamp.
nextSegmentIndex(A, segmentIndex, targetX) ==
    LET reset == IF targetX < A[segmentIndex + 1].x THEN 0 ELSE segmentIndex
    IN  Min(advanceSegment(A, reset, targetX), Len(A) - 2)

\* The segment cursor the sampler holds for column i of curve A: it
\* starts at 0 and is carried from column to column.
RECURSIVE CursorAt(_, _)
CursorAt(A, i) ==
    nextSegmentIndex(A, IF i = 0 THEN 0 ELSE CursorAt(A, i - 1), targetXOf(i))

\* The Y the sampler resolves for targetX on segment segmentIndex.
columnY(A, C, segmentIndex, targetX) ==
    IF segmentIndex >= 0
    THEN LET p0 == SegP0(A, segmentIndex)
             p3 == SegP3(A, segmentIndex)
             minX == Min(p0.x, p3.x)
             maxX == Max(p0.x, p3.x)
         IN  IF Abs(p0.x - p3.x) < tolerance
             THEN IF Abs(targetX - p0.x) < RoundDiv(cellWidth, 2)
                  THEN RoundDiv(p0.y + p3.y, 2)
                  ELSE IF targetX < p0.x THEN p0.y ELSE p3.y
             ELSE IF targetX >= minX - tolerance /\ targetX <= maxX + tolerance
                  THEN findYatX(targetX, p0, SegCp1(C, segmentIndex),
                                SegCp2(C, segmentIndex), p3)
                  ELSE IF targetX < minX THEN p0.y ELSE p3.y
    ELSE IF Len(A) > 0 THEN A[1].y ELSE centerY

\* The column loop ending one column early.
RECURSIVE sampleLoop_StopsEarly(_, _, _, _, _)
sampleLoop_StopsEarly(A, C, i, segmentIndex, newData) ==
    IF i >= currentLength - 1 THEN newData
    ELSE LET targetX == targetXOf(i)
             seg == nextSegmentIndex(A, segmentIndex, targetX)
             foundY == columnY(A, C, seg, targetX)
             rawValue == Div(baseHeight - foundY, stepHeight)
         IN  sampleLoop_StopsEarly(A, C, i + 1, seg,
                                   Append(newData, quantizeValue(rawValue)))

\* The column loop from column i on; newData holds columns 0 .. i-1.
RECURSIVE sampleLoop(_, _, _, _, _)
sampleLoop(A, C, i, segmentIndex, newData) ==
    IF i >= currentLength THEN newData
    ELSE LET targetX == targetXOf(i)
             seg == nextSegmentIndex(A, segmentIndex, targetX)
             foundY == columnY(A, C, seg, targetX)
             rawValue == Div(baseHeight - foundY, stepHeight)
         IN  sampleLoop(A, C, i + 1, seg, Append(newData, quantizeValue(rawValue)))

\* waveformOf whose fallback fills the array with 0.
waveformOf_FallbackZero(A, C) ==
    IF Len(A) < 2
    THEN [i \in 1..currentLength |-> 0]
    ELSE sampleLoop(A, C, 0, 0, <<>>)

\* The array generateWaveformFromBezier stores in waveformData for the
\* curve (A, C).
waveformOf(A, C) ==
    IF Len(A) < 2
    THEN [i \in 1..currentLength |-> currentCenterValue]
    ELSE sampleLoop(A, C, 0, 0, <<>>)

(***************************************************************************)
(* Interaction logic                                                       *)
(***************************************************************************)

NoPoint == [type |-> "null", index |-> -1, handle |-> 0]

\* Anchors are tested from the last index down, by their square grown by
\* the hit threshold.
RECURSIVE findClickedAnchor(_, _, _)
findClickedAnchor(A, i, pos) ==
    IF i < 0 THEN -1
    ELSE LET reach == RoundDiv(Div(Num(pointSize), dpr), 2) + Div(Num(hitThreshold), dpr)
             a == A[i + 1]
         IN  IF /\ pos.x >= a.x - reach
                /\ pos.x <= a.x + reach
                /\ pos.y >= a.y - reach
                /\ pos.y <= a.y + reach
             THEN i
             ELSE findClickedAnchor(A, i - 1, pos)

\* Control points are tested from the last pair down, cp1 before cp2, by
\* squared distance.
RECURSIVE findClickedControl(_, _, _)
findClickedControl(C, i, pos) ==
    IF i < 0 THEN NoPoint
    ELSE LET r == Div(Num(hitThreshold), dpr)
             hitRadiusSq == Mul(r, r)
         IN  IF distSq(pos, SegCp1(C, i)) < hitRadiusSq
             THEN [type |-> "control", index |-> i, handle |-> 1]
             ELSE IF distSq(pos, SegCp2(C, i)) < hitRadiusSq
                  THEN [type |-> "control", index |-> i, handle |-> 2]
                  ELSE findClickedControl(C, i - 1, pos)

\* findClickedPoint that tests the control points before the anchors.
findClickedPoint_ControlsFirst(A, C, pos) ==
    IF findClickedControl(C, Len(C) - 1, pos).type # "null"
    THEN findClickedControl(C, Len(C) - 1, pos)
    ELSE IF findClickedAnchor(A, Len(A) - 1, pos) >= 0
         THEN [type |-> "anchor", index |-> findClickedAnchor(A, Len(A) - 1, pos),
               handle |-> 0]
         ELSE NoPoint

findClickedPoint(A, C, pos) ==
    LET i == findClickedAnchor(A, Len(A) - 1, pos)
    IN  IF i >= 0 THEN [type |-> "anchor", index |-> i, handle |-> 0]
        ELSE findClickedControl(C, Len(C) - 1, pos)

\* The scan of addBezierPoint over the segments from seg on; best is
\* (minDistSq, bestT, bestSegment) so far.
RECURSIVE bestSegmentLoop(_, _, _, _, _)
bestSegmentLoop(A, C, seg, best, pos) ==
    IF seg >= Len(A) - 1 THEN best
    ELSE LET closest == findClosestPointOnSegment(pos, SegP0(A, seg),
                            SegCp1(C, seg), SegCp2(C, seg), SegP3(A, seg))
         IN  bestSegmentLoop(A, C, seg + 1,
                 IF closest.distSq < best.minDistSq
                 THEN [minDistSq |-> closest.distSq, bestT |-> closest.t,
                       bestSegment |-> seg]
                 ELSE best,
                 pos)

findBestSegment(A, C, pos) ==
    LET reach == Div(Mul(Num(hitThreshold), Dec(3, 2)), dpr)
    IN  bestSegmentLoop(A, C, 0,
            [minDistSq |-> Mul(reach, reach), bestT |-> Num(-1), bestSegment |-> -1],
            pos)

\* Array.prototype.splice(at, 0, e) with a 0-based position.
Splice(s, at, e) == SubSeq(s, 1, at) \o <<e>> \o SubSeq(s, at + 1, Len(s))

\* The control pair a half of a split contributes.
controlsOf(half) ==
    [cp1x |-> half.p1.x, cp1y |-> half.p1.y, cp2x |-> half.p2.x, cp2y |-> half.p2.y]

\* tooClose that looks at the far anchor of the segment only.
tooClose_EndOnly(newAnchor, p0, p3) == distSq(newAnchor, p3) < Num(1)

\* The test that keeps a new anchor off the anchors of its segment.
tooClose(newAnchor, p0, p3) ==
    distSq(newAnchor, p0) < Num(1) \/ distSq(newAnchor, p3) < Num(1)

\* insertSplit that inserts the first half's controls instead of storing
\* them over pair s.
insertSplit_InsertsBothPairs(A, C, s, split) ==
    [anchors |-> Splice(A, s + 1, split.first.p3),
     controls |-> Splice(Splice(C, s + 1, controlsOf(split.second)), s,
                         controlsOf(split.first))]

\* insertSplit that splices at the segment's own index.
insertSplit_AtSegmentStart(A, C, s, split) ==
    [anchors |-> Splice(A, s, split.first.p3),
     controls |-> [Splice(C, s, controlsOf(split.second))
                       EXCEPT ![s + 1] = controlsOf(split.first)]]

\* insertSplit with the two halves' controls exchanged.
insertSplit_SwappedHalves(A, C, s, split) ==
    [anchors |-> Splice(A, s + 1, split.first.p3),
     controls |-> [Splice(C, s + 1, controlsOf(split.first))
                       EXCEPT ![s + 1] = controlsOf(split.second)]]

\* The three array updates of a successful insertion into segment s.
insertSplit(A, C, s, split) ==
    [anchors |-> Splice(A, s + 1, split.first.p3),
     controls |-> [Splice(C, s + 1, controlsOf(split.second))
                       EXCEPT ![s + 1] = controlsOf(split.first)]]

\* addBezierPoint: the curve, the selection and what happened, given the
\* selection sel the caller has just stored.
\* The rest of addBezierPoint once segment s has been split: the
\* too-close test and the insertion.
insertNewAnchor(A, C, sel, s, split) ==
    IF tooClose(split.first.p3, SegP0(A, s), SegP3(A, s))
    THEN [anchors |-> A, controls |-> C, selectedPoint |-> sel,
          result |-> "too_close"]
    ELSE [anchors |-> insertSplit(A, C, s, split).anchors,
          controls |-> insertSplit(A, C, s, split).controls,
          selectedPoint |-> [type |-> "anchor", index |-> s + 1, handle |-> 0],
          result |-> "inserted"]

\* The rest of addBezierPoint once the scan has ended with best.
addAtBestSegment(A, C, sel, best) ==
    IF best.bestSegment = -1
    THEN [anchors |-> A, controls |-> C, selectedPoint |-> sel,
          result |-> "no_segment"]
    ELSE insertNewAnchor(A, C, sel, best.bestSegment,
             subdivideBezier(SegP0(A, best.bestSegment), SegCp1(C, best.bestSegment),
                             SegCp2(C, best.bestSegment), SegP3(A, best.bestSegment),
                             best.bestT))

addBezierPoint(A, C, sel, pos) ==
    addAtBestSegment(A, C, sel, findBestSegment(A, C, pos))

\* clampedPosition that pins the first anchor only.
clampedPosition_PinsFirstOnly(A, sel, offX, offY, pos) ==
    LET clampedY == Max(0, Min(baseHeight, pos.y - offY))
        clampedX == Max(0, Min(baseWidth, pos.x - offX))
    IN  IF sel.type = "anchor" /\ sel.index = 0
        THEN Pt(A[sel.index + 1].x, clampedY)
        ELSE Pt(clampedX, clampedY)

\* clampedPosition that lets a control point overshoot the canvas in X.
clampedPosition_ControlOvershootsX(A, sel, offX, offY, pos) ==
    LET clampedY == Max(0, Min(baseHeight, pos.y - offY))
        clampedX == Max(0, Min(baseWidth, pos.x - offX))
    IN  IF sel.type = "anchor" /\ (sel.index = 0 \/ sel.index = Len(A) - 1)
        THEN Pt(A[sel.index + 1].x, clampedY)
        ELSE IF sel.type = "control"
             THEN Pt(pos.x - offX, clampedY)
             ELSE Pt(clampedX, clampedY)

\* clampedPosition without the special handling of the end anchors.
clampedPosition_NoEndpointPin(A, sel, offX, offY, pos) ==
    Pt(Max(0, Min(baseWidth, pos.x - offX)), Max(0, Min(baseHeight, pos.y - offY)))

\* Pointer minus drag offset, clamped to the canvas; the first and the
\* last anchor keep their X.
clampedPosition(A, sel, offX, offY, pos) ==
    LET newX == pos.x - offX
        newY == pos.y - offY
        clampedY == Max(0, Min(baseHeight, newY))
        clampedX == Max(0, Min(baseWidth, newX))
    IN  IF sel.type = "anchor" /\ (sel.index = 0 \/ sel.index = Len(A) - 1)
        THEN Pt(A[sel.index + 1].x, clampedY)
        ELSE Pt(clampedX, clampedY)

\* moveAssociatedControls whose second test stops one pair early.
moveAssociatedControls_StopsEarly(C, index, deltaX, deltaY) ==
    LET C1 == IF index > 0
              THEN [C EXCEPT ![index].cp2x = @ + deltaX, ![index].cp2y = @ + deltaY]
              ELSE C
    IN  IF index < Len(C) - 1
        THEN [C1 EXCEPT ![index + 1].cp1x = @ + deltaX, ![index + 1].cp1y = @ + deltaY]
        ELSE C1

\* The controls after the selected anchor moved by (deltaX, deltaY).
moveAssociatedControls(C, index, deltaX, deltaY) ==
    LET C1 == IF index > 0
              THEN [C EXCEPT ![index].cp2x = @ + deltaX, ![index].cp2y = @ + deltaY]
              ELSE C
    IN  IF index < Len(C)
        THEN [C1 EXCEPT ![index + 1].cp1x = @ + deltaX, ![index + 1].cp1y = @ + deltaY]
        ELSE C1

\* The "update positions" step of bezierMouseMove: the curve after the
\* selected point is put at c.
updatePositions(A, C, sel, c) ==
    IF sel.type = "anchor"
    THEN [anchors |-> [A EXCEPT ![sel.index + 1] = c],
          controls |-> moveAssociatedControls(C, sel.index,
                           c.x - A[sel.index + 1].x, c.y - A[sel.index + 1].y)]
    ELSE IF sel.type = "control"
         THEN [anchors |-> A,
               controls |-> IF sel.handle = 1
                            THEN [C EXCEPT ![sel.index + 1].cp1x = c.x,
                                           ![sel.index + 1].cp1y = c.y]
                            ELSE [C EXCEPT ![sel.index + 1].cp2x = c.x,
                                           ![sel.index + 1].cp2y = c.y]]
         ELSE [anchors |-> A, controls |-> C]

\* moveIgnored that tests the selection only.
moveIgnored_SelectionOnly(dragging, sel) == sel.type = "null"

\* The early return of bezierMouseMove.
moveIgnored(dragging, sel) == ~dragging \/ sel.type = "null"

(***************************************************************************)
(* State                                                                   *)
(***************************************************************************)
VARIABLES
    anchors,               \* sequence of [x, y]
    controls,              \* sequence of [cp1x, cp1y, cp2x, cp2y]
    selectedPoint,         \* [type, index, handle]
    isDraggingBezierPoint, \* window.isDraggingBezierPoint
    dragOffsetX,
    dragOffsetY,
    waveformData,          \* the host's output array
    lastEvent,             \* the handler that ran last: what it was given,
                           \* what it found on entry and which way it went
    nEvents,               \* handler calls so far
    kernelCall             \* a direct call of a math utility or of the
                           \* sampler's cursor: its arguments and its result

curve == <<anchors, controls>>
editor == <<anchors, controls, selectedPoint, isDraggingBezierPoint,
            dragOffsetX, dragOffsetY, waveformData>>
vars == <<anchors, controls, selectedPoint, isDraggingBezierPoint,
          dragOffsetX, dragOffsetY, waveformData, lastEvent, nEvents,
          kernelCall>>

\* Pointer positions the resolver getEventCoords delivers (pixels).
PosPx ==
    { <<0, 50>>, <<0, 67>>, <<75, 50>>, <<110, 50>>, <<150, 50>>,
      <<310, 60>>, <<320, -10>> }
Positions == { Pt(Num(q[1]), Num(q[2])) : q \in PosPx }

\* args holds the pointer position if the handler read one.  dragArmed
\* tells whether the most recent pointer-down hit a point and neither a
\* pointer-up nor an initializeBezier has come since.
Event(op, result, args) ==
    [op |-> op, result |-> result, args |-> args,
     wasDragging |-> isDraggingBezierPoint, hadAnchors |-> Len(anchors),
     dragArmed |-> IF op = "bezierMouseDown" THEN result = "hit"
                   ELSE IF op \in {"bezierMouseUp", "initializeBezier"} THEN FALSE
                   ELSE lastEvent.dragArmed]

NoCall == [op |-> "none"]

Init ==
    /\ anchors = <<>>
    /\ controls = <<>>
    /\ selectedPoint = NoPoint
    /\ isDraggingBezierPoint = FALSE
    /\ dragOffsetX = 0
    /\ dragOffsetY = 0
    /\ waveformData \in { [i \in 1..currentLength |-> 0],
                          [i \in 1..currentLength |-> currentCenterValue] }
    /\ lastEvent = [op |-> "load", result |-> "none", args |-> <<>>,
                    wasDragging |-> FALSE, hadAnchors |-> 0, dragArmed |-> FALSE]
    /\ nEvents = 0
    /\ kernelCall = NoCall

\* One more handler call; the handlers make no record in kernelCall.
Tick == nEvents < MaxEvents /\ nEvents' = nEvents + 1 /\ UNCHANGED kernelCall

defaultAnchors ==
    LET currentCenterY == RoundDiv(baseHeight, 2)
    IN  << Pt(0, currentCenterY), Pt(baseWidth, currentCenterY) >>

defaultControls ==
    LET currentCenterY == RoundDiv(baseHeight, 2)
    IN  << [cp1x |-> Div(baseWidth, Num(3)), cp1y |-> currentCenterY,
            cp2x |-> Div(Mul(baseWidth, Num(2)), Num(3)), cp2y |-> currentCenterY] >>

\* initializeBezier that leaves the drag flag as it is.
initializeBezier_KeepsDragFlag ==
    /\ Tick
    /\ anchors' = defaultAnchors
    /\ controls' = defaultControls
    /\ selectedPoint' = NoPoint
    /\ waveformData' = waveformOf(defaultAnchors, defaultControls)
    /\ lastEvent' = Event("initializeBezier", "done", <<>>)
    /\ UNCHANGED <<isDraggingBezierPoint, dragOffsetX, dragOffsetY>>

initializeBezier ==
    /\ Tick
    /\ anchors' = defaultAnchors
    /\ controls' = defaultControls
    /\ selectedPoint' = NoPoint
    /\ isDraggingBezierPoint' = FALSE
    /\ waveformData' = waveformOf(defaultAnchors, defaultControls)
    /\ lastEvent' = Event("initializeBezier", "done", <<>>)
    /\ UNCHANGED <<dragOffsetX, dragOffsetY>>

generateWaveformFromBezier ==
    /\ Tick
    /\ waveformData' = waveformOf(anchors, controls)
    /\ lastEvent' = Event("generateWaveformFromBezier",
                          IF Len(anchors) < 2 THEN "fallback" ELSE "sampled", <<>>)
    /\ UNCHANGED <<anchors, controls, selectedPoint, isDraggingBezierPoint,
                   dragOffsetX, dragOffsetY>>

\* Position of the point a selection names.
currentPointPos(A, C, sel) ==
    IF sel.type = "anchor" THEN A[sel.index + 1]
    ELSE IF sel.handle = 1 THEN SegCp1(C, sel.index) ELSE SegCp2(C, sel.index)

bezierMouseDown(pos) ==
    /\ Tick
    /\ \E sel \in { findClickedPoint(anchors, controls, pos) } :
           IF sel.type # "null"
           THEN /\ selectedPoint' = sel
                /\ isDraggingBezierPoint' = TRUE
                /\ dragOffsetX' = pos.x - currentPointPos(anchors, controls, sel).x
                /\ dragOffsetY' = pos.y - currentPointPos(anchors, controls, sel).y
                /\ lastEvent' = Event("bezierMouseDown", "hit", <<pos>>)
                /\ UNCHANGED <<anchors, controls, waveformData>>
           ELSE \E r \in { addBezierPoint(anchors, controls, sel, pos) } :
                    /\ anchors' = r.anchors
                    /\ controls' = r.controls
                    /\ selectedPoint' = r.selectedPoint
                    /\ waveformData' = IF r.result = "inserted"
                                       THEN waveformOf(r.anchors, r.controls)
                                       ELSE waveformData
                    /\ lastEvent' = Event("bezierMouseDown", r.result, <<pos>>)
                    /\ UNCHANGED <<isDraggingBezierPoint, dragOffsetX, dragOffsetY>>

\* bezierMouseMove that does not call generateWaveformFromBezier.
bezierMouseMove_NoResample(pos) ==
    /\ Tick
    /\ IF moveIgnored(isDraggingBezierPoint, selectedPoint)
       THEN /\ lastEvent' = Event("bezierMouseMove", "ignored", <<>>)
            /\ UNCHANGED editor
       ELSE \E r \in { updatePositions(anchors, controls, selectedPoint,
                          clampedPosition(anchors, selectedPoint, dragOffsetX,
                                          dragOffsetY, pos)) } :
                /\ anchors' = r.anchors
                /\ controls' = r.controls
                /\ lastEvent' = Event("bezierMouseMove", selectedPoint.type, <<pos>>)
                /\ UNCHANGED <<selectedPoint, isDraggingBezierPoint,
                               dragOffsetX, dragOffsetY, waveformData>>

bezierMouseMove(pos) ==
    /\ Tick
    /\ IF moveIgnored(isDraggingBezierPoint, selectedPoint)
       THEN /\ lastEvent' = Event("bezierMouseMove", "ignored", <<>>)
            /\ UNCHANGED editor
       ELSE \E r \in { updatePositions(anchors, controls, selectedPoint,
                          clampedPosition(anchors, selectedPoint, dragOffsetX,
                                          dragOffsetY, pos)) } :
                /\ anchors' = r.anchors
                /\ controls' = r.controls
                /\ waveformData' = waveformOf(r.anchors, r.controls)
                /\ lastEvent' = Event("bezierMouseMove", selectedPoint.type, <<pos>>)
                /\ UNCHANGED <<selectedPoint, isDraggingBezierPoint,
                               dragOffsetX, dragOffsetY>>

\* bezierMouseUp that never clears the drag flag.
bezierMouseUp_KeepsDragFlag ==
    /\ Tick
    /\ lastEvent' = Event("bezierMouseUp",
                          IF isDraggingBezierPoint THEN "released" ELSE "idle", <<>>)
    /\ UNCHANGED editor

bezierMouseUp ==
    /\ Tick
    /\ isDraggingBezierPoint' = FALSE
    /\ lastEvent' = Event("bezierMouseUp",
                          IF isDraggingBezierPoint THEN "released" ELSE "idle", <<>>)
    /\ UNCHANGED <<anchors, controls, selectedPoint, dragOffsetX, dragOffsetY,
                   waveformData>>

Next ==
    \/ initializeBezier
    \/ generateWaveformFromBezier
    \/ \E pos \in Positions : bezierMouseDown(pos)
    \/ \E pos \in Positions : bezierMouseMove(pos)
    \/ bezierMouseUp

Spec == Init /\ [][Next]_vars

(***************************************************************************)
(* The math utilities called on their own: one call, on arguments drawn    *)
(* from a grid, from the state at load.  The editor is not touched.        *)
(***************************************************************************)

\* Number of equal steps the parameter grid cuts [0, 1] into.
ParamSteps == 40
ParamGrid == { RoundDiv(k * Scale, ParamSteps) : k \in 0..ParamSteps }

\* Control points of the segments tried: any four of these, so that
\* segments ascending, descending and vertical in X all occur.
KernelPoints ==
    { Pt(Num(0), Num(50)), Pt(Num(100), Num(0)), Pt(Num(200), Num(100)),
      Pt(Num(300), Num(50)) }

KernelIdle ==
    /\ kernelCall = NoCall
    /\ UNCHANGED <<anchors, controls, selectedPoint, isDraggingBezierPoint,
                   dragOffsetX, dragOffsetY, waveformData, lastEvent, nEvents>>

subdivideCall ==
    /\ KernelIdle
    /\ \E p0, p1, p2, p3 \in KernelPoints : \E t \in ParamGrid :
           kernelCall' = [op |-> "subdivideBezier", t |-> t,
                          p0 |-> p0, p1 |-> p1, p2 |-> p2, p3 |-> p3,
                          split |-> subdivideBezier(p0, p1, p2, p3, t),
                          point |-> getBezierPoint(t, p0, p1, p2, p3)]

\* Target X values tried on those segments: outside, at, within tolerance
\* of and between the anchor X values.
TargetXs ==
    { Num(-10), Num(0), Dec(5, 1000), Num(50), Num(100), Num(100) + Dec(5, 1000),
      Num(150), Num(200) - Dec(5, 1000), Num(250), Num(300), Num(310) }

findYatXCall ==
    /\ KernelIdle
    /\ \E p0, p1, p2, p3 \in KernelPoints : \E x \in TargetXs :
           kernelCall' = [op |-> "findYatX", x |-> x,
                          p0 |-> p0, p1 |-> p1, p2 |-> p2, p3 |-> p3,
                          y |-> findYatX(x, p0, p1, p2, p3)]

\* Anchor arrays the sampler's cursor is run on: every sequence of 2 to
\* MaxAnchors anchors with X from AnchorXs, in any order, on the midline.
MaxAnchors == 4
AnchorXs == { Num(0), Num(25), Num(60), Num(75), Num(150), Num(300) }
AnchorArrays ==
    UNION { [1..n -> { Pt(ax, centerY) : ax \in AnchorXs }] : n \in 2..MaxAnchors }

cursorCall ==
    /\ KernelIdle
    /\ \E A \in AnchorArrays :
           kernelCall' = [op |-> "cursor", anchors |-> A,
                          segments |-> [i \in 1..currentLength |-> CursorAt(A, i - 1)]]

KernelNext ==
    \/ subdivideCall
    \/ findYatXCall
    \/ cursorCall

KernelSpec == Init /\ [][KernelNext]_vars

(***************************************************************************)
(* Editing on from a curve of four anchors: the editor as it stands after  *)
(* initializeBezier and pointer-downs at (150, 50) and (75, 50), each of   *)
(* which inserts an anchor, then pointer-downs and moves that pick up      *)
(* interior and end anchors and carry them across their neighbours.        *)
(* nEvents counts the handler calls from that state on.                    *)
(***************************************************************************)
firstInsertion ==
    addBezierPoint(defaultAnchors, defaultControls, NoPoint, Pt(Num(150), Num(50)))
secondInsertion ==
    addBezierPoint(firstInsertion.anchors, firstInsertion.controls, NoPoint,
                   Pt(Num(75), Num(50)))

EditedInit ==
    /\ anchors = secondInsertion.anchors
    /\ controls = secondInsertion.controls
    /\ selectedPoint = secondInsertion.selectedPoint
    /\ isDraggingBezierPoint = FALSE
    /\ dragOffsetX = 0
    /\ dragOffsetY = 0
    /\ waveformData = waveformOf(secondInsertion.anchors, secondInsertion.controls)
    /\ lastEvent = [op |-> "bezierMouseDown", result |-> secondInsertion.result,
                    args |-> << Pt(Num(75), Num(50)) >>, wasDragging |-> FALSE,
                    hadAnchors |-> Len(firstInsertion.anchors), dragArmed |-> FALSE]
    /\ nEvents = 0
    /\ kernelCall = NoCall

EditPositions ==
    { Pt(Num(75), Num(50)), Pt(Num(150), Num(50)), Pt(Num(310), Num(60)),
      Pt(Num(0), Num(67)) }

EditNext ==
    \/ initializeBezier
    \/ \E pos \in EditPositions : bezierMouseDown(pos)
    \/ \E pos \in EditPositions : bezierMouseMove(pos)

EditSpec == EditedInit /\ [][EditNext]_vars

(***************************************************************************)
(* Properties                                                              *)
(***************************************************************************)

\* What a step was: the handler that ran in it and the position it read.
DownStep == lastEvent'.op = "bezierMouseDown"
MoveStep == lastEvent'.op = "bezierMouseMove"
UpStep == lastEvent'.op = "bezierMouseUp"
InitStep == lastEvent'.op = "initializeBezier"
InsertStep == DownStep /\ lastEvent'.result = "inserted"
AnchorDragStep == MoveStep /\ lastEvent'.result = "anchor"
StepPos == lastEvent'.args[1]

Initialized == anchors # <<>>
LastAnchor == Len(anchors) - 1
MidPoint == Pt(RoundDiv(baseWidth, 2), RoundDiv(baseHeight, 2))
Shifted(p, dx, dy) == Pt(p.x + dx, p.y + dy)

\* C1: once initialized the number of control pairs is the number of
\* anchors minus one, and a step that inserts adds one anchor and one
\* control pair together.
C1_ControlsMatchAnchors ==
    /\ [](Initialized => Len(controls) = Len(anchors) - 1)
    /\ [][InsertStep => /\ Len(anchors') = Len(anchors) + 1
                        /\ Len(controls') = Len(controls) + 1]_vars

C1_Witness ==
    /\ lastEvent.op = "bezierMouseDown"
    /\ lastEvent.result = "inserted"
    /\ lastEvent.hadAnchors = 3
    /\ Len(anchors) = 4
    /\ Len(controls) = 3

\* C2: a move that drags an interior anchor k by (dx, dy) moves cp2 of
\* segment k-1 and cp1 of segment k by (dx, dy) and changes no other
\* control point and no other anchor.
C2_AnchorDragRigid ==
    [][(AnchorDragStep /\ selectedPoint.index > 0 /\ selectedPoint.index < LastAnchor)
       => LET k == selectedPoint.index
              dx == anchors'[k + 1].x - anchors[k + 1].x
              dy == anchors'[k + 1].y - anchors[k + 1].y
          IN  /\ Len(anchors') = Len(anchors)
              /\ Len(controls') = Len(controls)
              /\ \A i \in 0..LastAnchor : i # k => anchors'[i + 1] = anchors[i + 1]
              /\ SegCp2(controls', k - 1) = Shifted(SegCp2(controls, k - 1), dx, dy)
              /\ SegCp1(controls', k) = Shifted(SegCp1(controls, k), dx, dy)
              /\ SegCp1(controls', k - 1) = SegCp1(controls, k - 1)
              /\ SegCp2(controls', k) = SegCp2(controls, k)
              /\ \A i \in 0..(Len(controls) - 1) :
                     i \notin {k - 1, k} => controls'[i + 1] = controls[i + 1]]_vars

\* An interior anchor has just been dragged and the control after it lies
\* right of the canvas, where only riding with the anchor can take it.
C2_Witness ==
    /\ lastEvent.op = "bezierMouseMove"
    /\ lastEvent.result = "anchor"
    /\ selectedPoint.index > 0
    /\ selectedPoint.index < LastAnchor
    /\ SegCp1(controls, selectedPoint.index).x > baseWidth

\* C3: a move that drags anchor 0 or the last anchor keeps that anchor's X
\* and leaves its Y inside [0, baseHeight], wherever the pointer is.
C3_EndpointPinned ==
    [][(AnchorDragStep /\ selectedPoint.index \in {0, LastAnchor})
       => LET k == selectedPoint.index
          IN  /\ anchors'[k + 1].x = anchors[k + 1].x
              /\ anchors'[k + 1].y >= 0
              /\ anchors'[k + 1].y <= baseHeight]_vars

\* The last anchor has been dragged with the pointer right of and above the
\* canvas: its Y sits at the top edge.
C3_Witness ==
    /\ lastEvent.op = "bezierMouseMove"
    /\ lastEvent.result = "anchor"
    /\ selectedPoint.index = LastAnchor
    /\ lastEvent.args[1].x - dragOffsetX > baseWidth
    /\ anchors[Len(anchors)].y = 0

\* C4: once initialized the first anchor is at x = 0 and the last at
\* x = baseWidth, and an insertion keeps the first and the last anchor in
\* place and puts the new one between them.
C4_EndpointsAtEdges ==
    /\ [](Initialized => anchors[1].x = 0 /\ anchors[Len(anchors)].x = baseWidth)
    /\ [][InsertStep => /\ anchors'[1] = anchors[1]
                        /\ anchors'[Len(anchors')] = anchors[Len(anchors)]
                        /\ selectedPoint'.index >= 1
                        /\ selectedPoint'.index <= Len(anchors') - 2]_vars

\* After an insertion the first anchor has been dragged.
C4_Witness ==
    /\ Len(anchors) >= 3
    /\ lastEvent.op = "bezierMouseMove"
    /\ lastEvent.result = "anchor"
    /\ selectedPoint.index = 0
    /\ anchors[1].y # RoundDiv(baseHeight, 2)

\* C5: the drag flag is a boolean; a pointer-down taken while idle sets it
\* exactly when the hit test finds a point; a pointer-up always clears it.
C5_DragStateMachine ==
    /\ [](isDraggingBezierPoint \in BOOLEAN)
    /\ [][(DownStep /\ ~isDraggingBezierPoint)
          => (isDraggingBezierPoint'
                <=> findClickedPoint(anchors, controls, StepPos).type # "null")]_vars
    /\ [][UpStep => ~isDraggingBezierPoint']_vars

\* A drag that saw no move has just been ended by a pointer-up.
C5_Witness ==
    /\ lastEvent.op = "bezierMouseUp"
    /\ lastEvent.wasDragging
    /\ ~isDraggingBezierPoint
    /\ anchors = defaultAnchors
    /\ controls = defaultControls

\* C6: a pointer-move taken while the drag flag is off changes nothing of
\* the editor.
C6_MoveWhileIdleIgnored ==
    [][(MoveStep /\ ~isDraggingBezierPoint)
       => UNCHANGED <<anchors, controls, selectedPoint, dragOffsetX,
                      dragOffsetY, waveformData>>]_vars

\* A move arrived while a point was still selected but no drag was on.
C6_Witness ==
    /\ lastEvent.op = "bezierMouseMove"
    /\ ~lastEvent.wasDragging
    /\ selectedPoint.type # "null"

\* The sampled distance from pos to segment seg, the segment addBezierPoint
\* is to choose (least distance, lowest index among equals), and the split
\* of that segment at its closest sample.
ReachSq == Mul(Div(Mul(Num(hitThreshold), Dec(3, 2)), dpr),
               Div(Mul(Num(hitThreshold), Dec(3, 2)), dpr))
ClosestOn(seg, pos) ==
    findClosestPointOnSegment(pos, SegP0(anchors, seg), SegCp1(controls, seg),
                              SegCp2(controls, seg), SegP3(anchors, seg))
Segments == 0..(Len(anchors) - 2)
NoSegmentInReach(pos) == \A seg \in Segments : ClosestOn(seg, pos).distSq >= ReachSq
NearestSegment(pos) ==
    LET d == { <<ClosestOn(seg, pos).distSq, seg>> : seg \in Segments }
        least == CHOOSE q \in d :
                     \A r \in d : q[1] < r[1] \/ (q[1] = r[1] /\ q[2] <= r[2])
    IN  least[2]
SplitAt(seg, pos) ==
    subdivideBezier(SegP0(anchors, seg), SegCp1(controls, seg),
                    SegCp2(controls, seg), SegP3(anchors, seg), ClosestOn(seg, pos).t)
SplitTooClose(pos) ==
    LET seg == NearestSegment(pos)
        newAnchor == SplitAt(seg, pos).first.p3
    IN  \/ distSq(newAnchor, SegP0(anchors, seg)) < Num(1)
        \/ distSq(newAnchor, SegP3(anchors, seg)) < Num(1)
NoHit(pos) == findClickedPoint(anchors, controls, pos).type = "null"

\* C7: a pointer-down that hits no point and finds no segment in reach, or
\* whose split point is closer than 1 (squared) to an anchor of the chosen
\* segment, leaves anchors and controls as they were.
C7_FailedInsertionKeepsCurve ==
    [][(DownStep /\ NoHit(StepPos)
          /\ (NoSegmentInReach(StepPos) \/ SplitTooClose(StepPos)))
       => anchors' = anchors /\ controls' = controls]_vars

\* An insertion has just been refused for a split point on top of an
\* anchor.
C7_Witness ==
    /\ lastEvent.op = "bezierMouseDown"
    /\ lastEvent.result = "too_close"
    /\ Len(anchors) >= 2

\* C8: a pointer-down that hits no point, with a segment in reach and a
\* split point clear of its anchors, puts the split point of the nearest
\* segment s at anchor index s+1, the first half's controls at pair s, the
\* second half's at pair s+1, keeps every other anchor and pair in order,
\* selects anchor s+1 and resamples.
C8_InsertionSplitsNearest ==
    [][(DownStep /\ NoHit(StepPos)
          /\ ~NoSegmentInReach(StepPos) /\ ~SplitTooClose(StepPos))
       => LET s == NearestSegment(StepPos)
              split == SplitAt(s, StepPos)
          IN  /\ Len(anchors') = Len(anchors) + 1
              /\ Len(controls') = Len(controls) + 1
              /\ \A i \in 0..s : anchors'[i + 1] = anchors[i + 1]
              /\ anchors'[s + 2] = split.first.p3
              /\ \A i \in (s + 1)..LastAnchor : anchors'[i + 2] = anchors[i + 1]
              /\ \A i \in 0..(s - 1) : controls'[i + 1] = controls[i + 1]
              /\ SegCp1(controls', s) = split.first.p1
              /\ SegCp2(controls', s) = split.first.p2
              /\ SegCp1(controls', s + 1) = split.second.p1
              /\ SegCp2(controls', s + 1) = split.second.p2
              /\ \A i \in (s + 1)..(Len(controls) - 1) :
                     controls'[i + 2] = controls[i + 1]
              /\ selectedPoint' = [type |-> "anchor", index |-> s + 1, handle |-> 0]
              /\ waveformData' = waveformOf(anchors', controls')]_vars

\* A second insertion has gone into the first of two segments, so that an
\* anchor and a control pair behind it had to move up.
C8_Witness ==
    /\ lastEvent.op = "bezierMouseDown"
    /\ lastEvent.result = "inserted"
    /\ lastEvent.hadAnchors = 3
    /\ selectedPoint = [type |-> "anchor", index |-> 1, handle |-> 0]

FlatValue == quantizeValue(Div(baseHeight - RoundDiv(baseHeight, 2), stepHeight))
FlatWaveform(w) == Len(w) = currentLength /\ \A i \in 1..Len(w) : w[i] = FlatValue

\* C9: after initializeBezier, whatever the state it was called in, the
\* anchors are (0, H/2), (W, H/2), the one control pair is
\* (W/3, H/2, 2W/3, H/2), nothing is selected and no drag is on; a second
\* call in a row changes nothing of the editor.
C9_InitializeDiscards ==
    /\ [](lastEvent.op = "initializeBezier"
          => /\ anchors = << Pt(0, RoundDiv(baseHeight, 2)),
                             Pt(baseWidth, RoundDiv(baseHeight, 2)) >>
             /\ controls = << [cp1x |-> Div(baseWidth, Num(3)),
                               cp1y |-> RoundDiv(baseHeight, 2),
                               cp2x |-> Div(2 * baseWidth, Num(3)),
                               cp2y |-> RoundDiv(baseHeight, 2)] >>
             /\ selectedPoint = [type |-> "null", index |-> -1, handle |-> 0]
             /\ isDraggingBezierPoint = FALSE)
    /\ [][(lastEvent.op = "initializeBezier" /\ InitStep) => UNCHANGED editor]_vars

\* initializeBezier has been called in the middle of a drag on a curve
\* that had an inserted anchor.
C9_Witness ==
    /\ lastEvent.op = "initializeBezier"
    /\ lastEvent.wasDragging
    /\ lastEvent.hadAnchors >= 3

\* C10: after initializeBezier every output entry is
\* quantize((H - H/2) / stepHeight); a pointer-down at the midpoint of the
\* default curve hits no point and gives 3 anchors, the new one at the
\* midpoint, 2 control pairs, and an output that is still that value
\* everywhere.
C10_FlatCurveStaysFlat ==
    /\ [](lastEvent.op = "initializeBezier" => FlatWaveform(waveformData))
    /\ [][(DownStep /\ StepPos = MidPoint
             /\ anchors = defaultAnchors /\ controls = defaultControls)
          => /\ lastEvent'.result = "inserted"
             /\ Len(anchors') = 3
             /\ anchors'[2] = MidPoint
             /\ Len(controls') = 2
             /\ FlatWaveform(waveformData')]_vars

C10_Witness ==
    /\ lastEvent.op = "bezierMouseDown"
    /\ lastEvent.args = <<MidPoint>>
    /\ lastEvent.hadAnchors = 2
    /\ Len(anchors) = 3
    /\ anchors[2] = MidPoint
    /\ controls[1].cp2x = Div(baseWidth, Num(3))
    /\ FlatWaveform(waveformData)

\* The hit box of an anchor a: its square grown by the hit threshold.
HitReach == RoundDiv(Div(Num(pointSize), dpr), 2) + Div(Num(hitThreshold), dpr)
InHitBox(p, a) == Abs(p.x - a.x) <= HitReach /\ Abs(p.y - a.y) <= HitReach
AnchorIndices == 0..LastAnchor
ControlPoints ==
    { SegCp1(controls, k) : k \in 0..(Len(controls) - 1) }
        \cup { SegCp2(controls, k) : k \in 0..(Len(controls) - 1) }
AnchorSelection(i) == [type |-> "anchor", index |-> i, handle |-> 0]

\* C11 as stated: the hit test at the coordinates of anchor i returns
\* the selection (anchor, i), for every anchor i of every reachable curve.
C11_HitAtAnchorReturnsIt ==
    \A i \in AnchorIndices :
        findClickedPoint(anchors, controls, anchors[i + 1]) = AnchorSelection(i)

\* C11 amended: the hit test at the coordinates of anchor i returns an
\* anchor, never a control point, and that anchor is the one of highest
\* index whose hit box holds the position: anchor i itself exactly when no
\* anchor of higher index has anchor i inside its hit box.
C11_HitAtAnchorReturnsTopmost ==
    \A i \in AnchorIndices :
        LET hit == findClickedPoint(anchors, controls, anchors[i + 1])
            above == { j \in AnchorIndices : j > i /\ InHitBox(anchors[i + 1], anchors[j + 1]) }
        IN  /\ hit.type = "anchor"
            /\ hit.handle = 0
            /\ hit.index \in {i} \cup above
            /\ \A j \in above : j <= hit.index

\* A control point has been dragged onto an anchor, and the hit test
\* at that place gives the anchor.
C11_Witness ==
    \E i \in AnchorIndices :
        /\ anchors[i + 1] \in ControlPoints
        /\ findClickedPoint(anchors, controls, anchors[i + 1]) = AnchorSelection(i)

\* A step in which the per-column sampler ran, and the output columns.
SampledStep ==
    \/ InitStep
    \/ InsertStep
    \/ MoveStep /\ lastEvent'.result # "ignored"
    \/ lastEvent'.op = "generateWaveformFromBezier" /\ lastEvent'.result = "sampled"
Columns == 0..(currentLength - 1)

\* The quantized value of column i of the curve (A, C).
ColumnValue(A, C, i) ==
    quantizeValue(Div(baseHeight - columnY(A, C, CursorAt(A, i), targetXOf(i)),
                      stepHeight))

\* C12: after every run of the sampler on a curve of two or more
\* anchors the output has exactly currentLength entries, and entry i is
\* the quantized value computed for column i, a number of the output
\* range.
C12_SamplerCoversEveryColumn ==
    [][(SampledStep /\ Len(anchors') >= 2)
       => /\ DOMAIN waveformData' = 1..currentLength
          /\ \A i \in Columns :
                 /\ waveformData'[i + 1] = ColumnValue(anchors', controls', i)
                 /\ waveformData'[i + 1] \in 0..currentMaxValue]_vars

\* The sampler has run on a curve of three anchors or more, after a
\* drag, and the output is not flat.
C12_Witness ==
    /\ lastEvent.op = "bezierMouseMove"
    /\ lastEvent.result = "anchor"
    /\ Len(anchors) >= 3
    /\ Len(waveformData) = currentLength
    /\ \E i, j \in 1..currentLength : waveformData[i] # waveformData[j]

GenerateStep == lastEvent'.op = "generateWaveformFromBezier"
CenterWaveform == [i \in 1..currentLength |-> currentCenterValue]

\* C13: a run of the sampler on fewer than two anchors takes the fallback
\* path: the output becomes currentLength copies of currentCenterValue,
\* and the curve, the selection and the drag state stay as they were.
C13_TooFewAnchorsFallback ==
    [][(GenerateStep /\ Len(anchors) < 2)
       => /\ lastEvent'.result = "fallback"
          /\ waveformData' = CenterWaveform
          /\ UNCHANGED <<anchors, controls, selectedPoint,
                         isDraggingBezierPoint, dragOffsetX, dragOffsetY>>]_vars

\* The sampler has run before the first initializeBezier.
C13_Witness ==
    /\ lastEvent.op = "generateWaveformFromBezier"
    /\ lastEvent.result = "fallback"
    /\ lastEvent.hadAnchors = 0
    /\ anchors = <<>>
    /\ waveformData = CenterWaveform

SubdivideCalled == kernelCall.op = "subdivideBezier"

\* The largest coordinate magnitude among the four points of a call, and
\* the rounding the two evaluation orders can differ by on such points:
\* four weights and four products, each rounded once.
Magnitude(c) ==
    Max(Max(Max(Abs(c.p0.x), Abs(c.p0.y)), Max(Abs(c.p1.x), Abs(c.p1.y))),
        Max(Max(Abs(c.p2.x), Abs(c.p2.y)), Max(Abs(c.p3.x), Abs(c.p3.y))))
RoundingSlack(c) == 4 * RoundDiv(Magnitude(c), Scale) + 4
Near(p, q, slack) == Abs(p.x - q.x) <= slack /\ Abs(p.y - q.y) <= slack

ControlDragStep == MoveStep /\ lastEvent'.result = "control"
Clamp(v, lo, hi) == Max(lo, Min(hi, v))

\* C15: a move that drags a control point puts the selected handle of the
\* selected pair at the pointer minus the drag offset, clamped to
\* [0, baseWidth] x [0, baseHeight], and changes no anchor, not the other
\* handle of the pair and no other pair.
C15_ControlDragMovesOneHandle ==
    [][ControlDragStep
       => LET k == selectedPoint.index
              target == Pt(Clamp(StepPos.x - dragOffsetX, 0, baseWidth),
                           Clamp(StepPos.y - dragOffsetY, 0, baseHeight))
          IN  /\ anchors' = anchors
              /\ Len(controls') = Len(controls)
              /\ selectedPoint.handle = 1
                    => /\ SegCp1(controls', k) = target
                       /\ SegCp2(controls', k) = SegCp2(controls, k)
              /\ selectedPoint.handle = 2
                    => /\ SegCp2(controls', k) = target
                       /\ SegCp1(controls', k) = SegCp1(controls, k)
              /\ selectedPoint.handle \in {1, 2}
              /\ \A i \in 0..(Len(controls) - 1) :
                     i # k => controls'[i + 1] = controls[i + 1]]_vars

\* A control point has been dragged with the pointer right of and above
\* the canvas: it sits in the canvas corner.
C15_Witness ==
    /\ lastEvent.op = "bezierMouseMove"
    /\ lastEvent.result = "control"
    /\ lastEvent.args[1].x - dragOffsetX > baseWidth
    /\ lastEvent.args[1].y - dragOffsetY < 0
    /\ currentPointPos(anchors, controls, selectedPoint) = Pt(baseWidth, 0)

FindYatXCalled == kernelCall.op = "findYatX"
LeftEnd(c) == IF c.p0.x < c.p3.x THEN c.p0 ELSE c.p3
RightEnd(c) == IF c.p0.x < c.p3.x THEN c.p3 ELSE c.p0

\* C16: on a segment ascending or descending in X, findYatX gives the Y
\* of the endpoint of least X for a target within tolerance of or below
\* the least X, and the Y of the endpoint of greatest X for a target
\* within tolerance of or above the greatest X.
C16_ShortcutGivesNearEndpoint ==
    (FindYatXCalled /\ kernelCall.p0.x # kernelCall.p3.x)
    => /\ kernelCall.x <= LeftEnd(kernelCall).x + tolerance
             => kernelCall.y = LeftEnd(kernelCall).y
       /\ kernelCall.x >= RightEnd(kernelCall).x - tolerance
             => kernelCall.y = RightEnd(kernelCall).y

\* C17: once initialized, the output between handler calls is the
\* sampling of the current anchors and controls, and every step that
\* changes an anchor or a control point ends with the output resampled
\* from the curve it leaves.
C17_OutputNeverStale ==
    /\ [](Initialized => waveformData = waveformOf(anchors, controls))
    /\ [][(anchors' # anchors \/ controls' # controls)
          => /\ SampledStep
             /\ waveformData' = waveformOf(anchors', controls')]_vars

\* A drag has changed the curve and the output with it.
C17_Witness ==
    /\ lastEvent.op = "bezierMouseMove"
    /\ lastEvent.result # "ignored"
    /\ anchors # defaultAnchors
    /\ ~FlatWaveform(waveformData)
    /\ waveformData = waveformOf(anchors, controls)

CursorCalled == kernelCall.op = "cursor"
Ascending(A) == \A i \in 1..(Len(A) - 1) : A[i].x <= A[i + 1].x

\* The segment a search from scratch gives for targetX: the one of lowest
\* index whose right anchor is at or right of targetX, else the last.
FullSearch(A, targetX) ==
    LET holding == { seg \in 0..(Len(A) - 2) : A[seg + 2].x >= targetX }
    IN  IF holding = {} THEN Len(A) - 2
        ELSE CHOOSE seg \in holding : \A other \in holding : seg <= other

\* C18: on every curve whose anchor X values are ascending, the segment
\* the sampler's cursor holds for column i is the segment a search from
\* scratch gives for the centre of column i.
C18_CursorMatchesFullSearch ==
    (CursorCalled /\ Ascending(kernelCall.anchors))
    => \A i \in Columns :
           kernelCall.segments[i + 1] = FullSearch(kernelCall.anchors, targetXOf(i))

\* The cursor has run over four ascending anchors, one of them at a
\* column centre, and has stood on each of the three segments.
C18_Witness ==
    /\ CursorCalled
    /\ Ascending(kernelCall.anchors)
    /\ Len(kernelCall.anchors) = 4
    /\ \E i \in Columns : \E k \in 2..3 : kernelCall.anchors[k].x = targetXOf(i)
    /\ { kernelCall.segments[i + 1] : i \in Columns } = {0, 1, 2}

CurveChanged == anchors' # anchors \/ controls' # controls

\* C19: a pointer-move changes an anchor or a control point only if the
\* most recent pointer-down hit a point and no pointer-up or
\* initializeBezier came since; whenever the drag flag is on, something
\* is selected; and a move that follows an inserting pointer-down leaves
\* the inserted anchor where it is.
C19_MovesOnlyWhileArmed ==
    /\ [][(MoveStep /\ CurveChanged) => lastEvent.dragArmed]_vars
    /\ [](isDraggingBezierPoint => selectedPoint.type # "null")
    /\ [][(MoveStep /\ lastEvent.op = "bezierMouseDown"
                   /\ lastEvent.result = "inserted")
          => anchors'[selectedPoint.index + 1] = anchors[selectedPoint.index + 1]]_vars

\* The cursor the sampler enters column i with.
CursorBefore(A, i) == IF i = 0 THEN 0 ELSE CursorAt(A, i - 1)

\* C20: once initialized, for every column the sampler's segment index
\* lies in 0 .. Len(anchors) - 2, the reset branch does not fire and the
\* cursor does not go back, and the centre of the column lies between
\* the X of the chosen segment's two anchors.
C20_CursorStaysOnTarget ==
    Initialized
    => \A i \in Columns :
           LET seg == CursorAt(anchors, i)
               before == CursorBefore(anchors, i)
           IN  /\ seg \in 0..(Len(anchors) - 2)
               /\ ~(targetXOf(i) < anchors[before + 1].x)
               /\ before <= seg
               /\ SegP0(anchors, seg).x <= targetXOf(i)
               /\ targetXOf(i) <= SegP3(anchors, seg).x

\* An interior anchor has been dragged right of the anchor after it.
C20_Witness ==
    /\ lastEvent.op = "bezierMouseMove"
    /\ lastEvent.result = "anchor"
    /\ Len(anchors) >= 4
    /\ \E k \in 2..(Len(anchors) - 2) : anchors[k].x > anchors[k + 1].x
    /\ \E i, j \in Columns : CursorAt(anchors, i) # CursorAt(anchors, j)

\* The state EditSpec starts from, as the editor reaches it.
EditedCurveReached ==
    /\ anchors = secondInsertion.anchors
    /\ controls = secondInsertion.controls
    /\ selectedPoint = secondInsertion.selectedPoint
    /\ ~isDraggingBezierPoint
    /\ dragOffsetX = 0
    /\ dragOffsetY = 0
    /\ waveformData = waveformOf(secondInsertion.anchors, secondInsertion.controls)
    /\ lastEvent.op = "bezierMouseDown"
    /\ lastEvent.result = "inserted"

====
